---- MODULE Spec2Model ----
(***************************************************************************)
(* Model of the p_security programs.                                       *)
(*                                                                         *)
(* Part 1: dangling_pointer/secure (close_child, close_parent).            *)
(* Part 2: sealevel_attacks/secure (the account-check handler).            *)
(* Part 3: forced_rebalancing/secure (deposit, withdraw, rebalance).       *)
(* Part 4: sneaky_oracle/secure (the price update).                        *)
(* Part 5: timing/secure (the staking pool's deposit and claim).           *)
(* Part 6: dangling_pointer/insecure (close_child, close_parent).          *)
(*                                                                         *)
(* The state is the account memory the handlers are run on.  A handler is  *)
(* a function from that memory and the list of accounts named in the call  *)
(* to a result (Ok or a ProgramError) and the memory as the handler leaves *)
(* it when it returns.  Whatever the handler wrote before an early return  *)
(* stays written: the source keeps no copy to restore, and the host that   *)
(* may discard a failed instruction is not part of the repository.         *)
(*                                                                         *)
(* Account data is a sequence of 8-byte words: a u64 is one word, a Pubkey *)
(* is four.  The unchecked casts of the source read as many words as the   *)
(* target struct has, whatever the account's length; words past the end    *)
(* of the data are an out-of-bounds read and come from OverRead.           *)
(***************************************************************************)
EXTENDS Integers, Sequences, FiniteSets, TLC

\* ---------------------------------------------------------------- bounds
NChildren == 2
MaxRecreate == 2
MaxCloses == 2
\* forced_rebalancing: the largest value of a stake word (u64::MAX scaled
\* down) and the largest amount a call names
MaxU64 == 3
MaxAmount == 2
\* sneaky_oracle: the last slot of the clock
MaxSlot == 5
\* timing: the latest time a pool names
MaxTime == 2

\* ------------------------------------------------------------- addresses
\* An address is a number; its 32-byte key is KeyWords(a).  The leading
\* word of every key is larger than any child_count and than any word of
\* OverRead, as a key drawn at random is with overwhelming probability.
ParentAddr == {101, 102}
ChildAddr == {200 + i : i \in 1..NChildren}
UserAddr == {301}
Addr == ParentAddr \cup ChildAddr \cup UserAddr

KeyWords(a) == <<a, a, a, a>>

\* custody tags: crate::id(), pinocchio_system::ID, any other program
Owners == {"program", "system", "other"}

\* bytes per word, size_of::<ParentAccount>(), size_of::<ChildAccount>()
WORD_BYTES == 8
PARENT_SIZE == 8
CHILD_SIZE == 32

\* what an out-of-bounds word can read as
OverRead == {0, 1}

\* sealevel_attacks/secure: the accounts of test_program and the Rent sysvar
RENT_ID == "rent"
SLAddr == {RENT_ID, "account_a", "account_b"}
PERSON_DISCRIMINATOR == 0
EMPLOYEE_DISCRIMINATOR == 1
PERSON_MIN_LEN == 9

VARIABLES
    acct,     \* dangling_pointer: Addr -> [lamports, owner, data]
    last,     \* dangling_pointer: the last call [op, res, at], whether its first two
              \* accounts were the same (dup) and whether its first was reclaimed (stale)
    closes,   \* dangling_pointer: Addr -> successful closes of the record at that address
    scen,     \* dangling_pointer: progress of the refuse / close child / close parent scenario
    sldata,   \* sealevel_attacks: SLAddr -> data bytes
    sllast,   \* sealevel_attacks: the last call [res, at]
    pool,     \* forced_rebalancing: the Pool record [authority, total_stake]
    stake,    \* forced_rebalancing: validator account -> Validator.stake_amount
    rblast,   \* forced_rebalancing: the last call [op, res, at] and whether it
              \* spread a total over distinct validators that do not divide it
    asset,    \* sneaky_oracle: the AssetInfo record [price, last_update_slot (bytes)]
    current_slot, \* sneaky_oracle: Clock::get().slot
    orlast,   \* sneaky_oracle: the last step [op, res, at] and the update_slot
              \* of the oracle account it named
    tpool,    \* timing: the Pool record [start_time, end_time, claim_time, total_deposited]
    tuser,    \* timing: user account -> User record [deposited, claimed]
    now,      \* timing: Clock::get().unix_timestamp
    tlast     \* timing: the last step [op, res, at]

dpvars == <<acct, last, closes, scen>>
slvars == <<sldata, sllast>>
rbvars == <<pool, stake, rblast>>
orvars == <<asset, current_slot, orlast>>
tmvars == <<tpool, tuser, now, tlast>>
vars == <<acct, last, closes, scen, sldata, sllast, pool, stake, rblast,
          asset, current_slot, orlast, tpool, tuser, now, tlast>>

\* ------------------------------------------------------------ AccountInfo
data_len(r) == WORD_BYTES * Len(r.data)

\* borrow_data_unchecked().as_ptr() as *const T, T of n words
ReadWords(d, n, pad) == [i \in 1..n |-> IF i <= Len(d) THEN d[i] ELSE pad]

ReadU64(d, pad) == ReadWords(d, 1, pad)[1]

ReadPubkey(d, pad) == ReadWords(d, CHILD_SIZE \div WORD_BYTES, pad)

\* write through *mut ParentAccount: the first word of the data
WriteU64(d, v) == IF Len(d) = 0 THEN d ELSE [d EXCEPT ![1] = v]

\* the subtraction without the check: 0 - 1 wraps
WrappingSub(a, b) == <<(a - b) % 65536>>

\* u64::checked_sub: <<difference>> for Some, <<>> for None
CheckedSub(a, b) == IF a >= b THEN <<a - b>> ELSE <<>>

\* the record left as it is
ReclaimNothing(A, x) == A

\* assign(&pinocchio_system::ID); resize(0); close()
Reclaim(A, x) == [A EXCEPT ![x] = [lamports |-> 0, owner |-> "system", data |-> <<>>]]

\* a fixed amount instead of the record's lamports
CreditOne(A, u, x) == [A EXCEPT ![u].lamports = @ + 1]

\* *user.try_borrow_mut_lamports()? += *x.try_borrow_lamports()?
Credit(A, u, x) == [A EXCEPT ![u].lamports = @ + A[x].lamports]

Ok(A) == [res |-> "Ok", at |-> "end", mem |-> A]
Err(e, where, A) == [res |-> e, at |-> where, mem |-> A]

\* ------------------------------------------------------------ close_child
\* the lamports test left out
ParentNeverMissing(r) == FALSE

\* parent_account.lamports() == 0
ParentMissing(r) == r.lamports = 0

\* the back-reference test left out
BackRefIgnored(d, p, pad) == FALSE

\* every back-reference refused
BackRefAlwaysDiffers(d, p, pad) == TRUE

\* child.parent != *parent_account.key()
BackRefDiffers(d, p, pad) == ReadPubkey(d, pad) # KeyWords(p)

close_child(A, c, p, u, pad) ==
    IF ParentMissing(A[p])
    THEN Err("InvalidAccountData", "parent_lamports", A)
    ELSE IF A[p].owner # A[c].owner
    THEN Err("IllegalOwner", "owner", A)
    ELSE IF data_len(A[p]) # PARENT_SIZE
    THEN Err("InvalidAccountData", "parent_len", A)
    ELSE IF BackRefDiffers(A[c].data, p, pad)
    THEN Err("InvalidAccountData", "back_ref", A)
    ELSE LET n == CheckedSub(ReadU64(A[p].data, pad), 1)
         IN  IF n = <<>>
             THEN Err("InvalidAccountData", "checked_sub", A)
             ELSE LET A1 == [A EXCEPT ![p].data = WriteU64(@, n[1])]
                  IN  IF u = c
                      THEN Err("AccountBorrowFailed", "borrow_lamports", A1)
                      ELSE LET A2 == Credit(A1, u, c)
                               A3 == [A2 EXCEPT ![c].owner = "system"]
                           IN  IF c = p
                               THEN Err("AccountBorrowFailed", "resize", A3)
                               ELSE Ok(Reclaim(A3, c))

\* ----------------------------------------------------------- close_parent
\* the comparison turned round: a count of 0 is refused as well
HasChildrenOrNone(n) == n >= 0

\* parent.child_count != 0
HasChildren(n) == n # 0

close_parent(A, p, u, pad) ==
    IF A[p].owner # "program"
    THEN Err("IllegalOwner", "owner", A)
    ELSE IF HasChildren(ReadU64(A[p].data, pad))
    THEN Err("InvalidAccountData", "child_count", A)
    ELSE IF u = p
    THEN Err("AccountBorrowFailed", "borrow_lamports", A)
    ELSE Ok(Reclaim(Credit(A, u, p), p))

\* ---------------------------------------------------- process_instruction
InstructionData == {<<>>, <<0>>, <<1>>, <<2>>}

\* the last byte of the payload taken for the selector
SelectorLast(instruction_data) == instruction_data[Len(instruction_data)]

\* instruction_data[0]: the first byte, the rest is not looked at
Selector(instruction_data) == instruction_data[1]

process_instruction(A, accounts, instruction_data, pad) ==
    IF Len(instruction_data) = 0
    THEN Err("InvalidInstructionData", "empty", A)
    ELSE IF Selector(instruction_data) = 0
    THEN close_child(A, accounts[1], accounts[2], accounts[3], pad)
    ELSE IF Selector(instruction_data) = 1
    THEN close_parent(A, accounts[1], accounts[2], pad)
    ELSE Err("InvalidInstructionData", "opcode", A)

\* the name of the operation a payload selects, of a program with two
OpNameOf(instruction_data, op0, op1) ==
    IF Len(instruction_data) = 0 THEN "none"
    ELSE IF instruction_data[1] = 0 THEN op0
    ELSE IF instruction_data[1] = 1 THEN op1
    ELSE "unknown"

OpName(instruction_data) == OpNameOf(instruction_data, "close_child", "close_parent")

Min(a, b) == IF a < b THEN a ELSE b

\* live records of the program, by shape
LiveParent(A, p) ==
    /\ A[p].owner = "program"
    /\ A[p].lamports > 0
    /\ data_len(A[p]) = PARENT_SIZE

Count(A, p) == A[p].data[1]

Bound(A, p) ==
    {c \in Addr : /\ A[c].owner = "program"
                  /\ A[c].lamports > 0
                  /\ A[c].data = KeyWords(p)}

\* The scenario of test_cannot_close_parent_with_child followed by
\* test_child_then_parent_close, on consecutive calls: close_parent refused
\* for a parent with count 1 and one bound child (1), close_child against
\* that parent succeeds (2), close_parent of it succeeds (3), and the next
\* call is a close_child naming the parent just closed (4).
ScenStep(A, accounts, op, r) ==
    IF /\ op = "close_parent"
       /\ r.at = "child_count"
       /\ LiveParent(A, accounts[1])
       /\ Count(A, accounts[1]) = 1
       /\ Cardinality(Bound(A, accounts[1])) = 1
    THEN [phase |-> 1, p |-> accounts[1]]
    ELSE IF op = "close_child" /\ r.res = "Ok" /\ scen.phase = 1 /\ accounts[2] = scen.p
    THEN [phase |-> 2, p |-> scen.p]
    ELSE IF op = "close_parent" /\ r.res = "Ok" /\ scen.phase = 2 /\ accounts[1] = scen.p
    THEN [phase |-> 3, p |-> scen.p]
    ELSE IF op = "close_child" /\ scen.phase = 3 /\ accounts[2] = scen.p
    THEN [phase |-> 4, p |-> scen.p]
    ELSE [phase |-> 0, p |-> 0]

\* the record closed by a successful call is accounts[1] in both operations
Invoke(accounts, instruction_data, pad) ==
    LET r == process_instruction(acct, accounts, instruction_data, pad)
    IN  /\ acct' = r.mem
        /\ last' = [op |-> OpName(instruction_data), res |-> r.res, at |-> r.at,
                    dup |-> accounts[1] = accounts[2],
                    stale |-> closes[accounts[1]] > 0]
        /\ closes' = IF r.res = "Ok"
                     THEN [closes EXCEPT ![accounts[1]] = Min(@ + 1, MaxCloses)]
                     ELSE closes
        /\ scen' = ScenStep(acct, accounts, OpName(instruction_data), r)
        /\ UNCHANGED <<slvars, rbvars, orvars, tmvars>>

\* the out-of-bounds words matter only to a cast that reads past the data
Pads(a, words) == IF Len(acct[a].data) < words THEN OverRead ELSE {0}

\* Any account can be named in any role; the beneficiary is a user account
\* or one of the other accounts of the call.
CloseChild ==
    \E c \in Addr, p \in Addr :
        \E u \in UserAddr \cup {c, p}, pad \in Pads(c, CHILD_SIZE \div WORD_BYTES) :
            Invoke(<<c, p, u>>, <<0>>, pad)

CloseParent ==
    \E p \in Addr :
        \E u \in UserAddr \cup {p}, pad \in Pads(p, PARENT_SIZE \div WORD_BYTES) :
            Invoke(<<p, u>>, <<1>>, pad)

BadInstruction ==
    \E p \in ParentAddr, u \in UserAddr, d \in InstructionData \ {<<0>>, <<1>>} :
        Invoke(<<p, u>>, d, 0)

\* ---------------------------------------------------------------- Recreate
\* The environment puts a new record at an address that holds nothing
\* (svm.set_account at the closed parent's address in the exploit test),
\* with a custody tag other than this program's and a record of the shape
\* the address held before: a count, or a parent's key.
TotalLamports(A) ==
    LET RECURSIVE Sum(_)
        Sum(S) == IF S = {} THEN 0
                  ELSE LET a == CHOOSE x \in S : TRUE IN A[a].lamports + Sum(S \ {a})
    IN  Sum(Addr)

InitTotal == 2 * Cardinality(ParentAddr) + NChildren + Cardinality(UserAddr)

RecreateData(a) ==
    IF a \in ParentAddr
    THEN {<<n>> : n \in 0..1}
    ELSE {KeyWords(p) : p \in ParentAddr}

Recreate ==
    \E a \in ParentAddr \cup ChildAddr :
      \E d \in RecreateData(a) :
        /\ acct[a].lamports = 0
        /\ TotalLamports(acct) < InitTotal + MaxRecreate
        /\ acct' = [acct EXCEPT ![a] = [lamports |-> 1, owner |-> "other", data |-> d]]
        /\ last' = [op |-> "recreate", res |-> "Ok", at |-> "end", dup |-> FALSE,
                    stale |-> FALSE]
        /\ closes' = [closes EXCEPT ![a] = 0]
        /\ scen' = [phase |-> 0, p |-> 0]
        /\ UNCHANGED <<slvars, rbvars, orvars, tmvars>>

\* ------------------------------------------- sealevel_attacks/secure handler
Fill(d, b) == [i \in 1..Len(d) |-> b]

checks_process_instruction(M, accounts) ==
    IF Len(accounts) < 3
    THEN Err("NotEnoughAccountKeys", "len", M)
    ELSE IF accounts[1] # RENT_ID
    THEN Err("InvalidAccountData", "rent", M)
    ELSE IF accounts[2] = accounts[3]
    THEN Err("InvalidAccountData", "alias", M)
    ELSE IF \/ Len(M[accounts[2]]) < PERSON_MIN_LEN
            \/ M[accounts[2]][1] # PERSON_DISCRIMINATOR
    THEN Err("InvalidAccountData", "discriminator", M)
    ELSE LET M1 == [M EXCEPT ![accounts[2]] = Fill(@, 11)]
         IN  Ok([M1 EXCEPT ![accounts[3]] = Fill(@, 12)])

AccountLists == UNION {[1..n -> SLAddr] : n \in 2..3}

Checks ==
    \E accounts \in AccountLists :
        LET r == checks_process_instruction(sldata, accounts)
        IN  /\ sldata' = r.mem
            /\ sllast' = [res |-> r.res, at |-> r.at]
            /\ UNCHANGED <<dpvars, rbvars, orvars, tmvars>>

\* ------------------------------------------- forced_rebalancing/secure
\* the accounts of the tests: one pool, its authority, three validators;
\* "mallory" is any other account named as the authority
POOL_AUTHORITY == "authority"
Authorities == {POOL_AUTHORITY, "mallory"}
Validators == {"va", "vb", "vc"}

\* the validator accounts a call names after the pool and the authority:
\* any of them, in any order, any number of times
ValidatorLists == UNION {[1..n -> Validators] : n \in 0..Cardinality(Validators)}

\* the payload after the selector: the 8 bytes of an amount read as one
\* word, or fewer than 8 bytes
Amounts == 0..MaxAmount
AmountData == {<<>>} \cup {<<a>> : a \in Amounts}

\* u64::wrapping_add, always Some
CheckedAddWrapping(a, b) == <<(a + b) % (MaxU64 + 1)>>

\* u64::checked_add: <<sum>> for Some, <<>> for None
CheckedAdd(a, b) == IF a + b <= MaxU64 THEN <<a + b>> ELSE <<>>

\* any signer taken for the authority
enforce_signer(S, authority, is_signer) ==
    IF ~is_signer THEN "MissingRequiredSignature" ELSE "Ok"

enforce_authority(S, authority, is_signer) ==
    IF ~is_signer THEN "MissingRequiredSignature"
    ELSE IF authority # S.pool.authority THEN "IllegalOwner"
    ELSE "Ok"

\* nothing of the remainder handed out
ExtraNone(remainder) == 0

\* let extra = if remainder > 0 { remainder -= 1; 1 } else { 0 }
Extra(remainder) == IF remainder > 0 THEN 1 ELSE 0

\* the loop writes the validators in list order; a validator named twice is
\* written twice and keeps the later value
rebalance(total, validators, S) ==
    LET count == Len(validators)
        RECURSIVE loop(_, _, _)
        loop(st, i, remainder) ==
            IF i > count THEN st
            ELSE LET extra == Extra(remainder)
                 IN  loop([st EXCEPT ![validators[i]] = (total \div count) + extra],
                          i + 1, remainder - extra)
    IN  IF count = 0
        THEN Err("InvalidAccountData", "count", S)
        ELSE Ok([S EXCEPT !.stake = loop(S.stake, 1, total % count)])

\* data[..8] of a shorter payload panics; total_stake is written through the
\* pointer before rebalance runs
deposit(S, authority, is_signer, validators, data) ==
    IF Len(data) = 0 THEN Err("Panic", "amount", S)
    ELSE LET auth == enforce_authority(S, authority, is_signer)
             total == CheckedAdd(S.pool.total_stake, data[1])
         IN  IF auth # "Ok" THEN Err(auth, "authority", S)
             ELSE IF total = <<>> THEN Err("InvalidAccountData", "checked_add", S)
             ELSE rebalance(total[1], validators, [S EXCEPT !.pool.total_stake = total[1]])

withdraw(S, authority, is_signer, validators, data) ==
    IF Len(data) = 0 THEN Err("Panic", "amount", S)
    ELSE LET auth == enforce_authority(S, authority, is_signer)
             total == CheckedSub(S.pool.total_stake, data[1])
         IN  IF auth # "Ok" THEN Err(auth, "authority", S)
             ELSE IF total = <<>> THEN Err("InvalidAccountData", "checked_sub", S)
             ELSE rebalance(total[1], validators, [S EXCEPT !.pool.total_stake = total[1]])

\* instruction_data.split_first(): the selector and the rest
rebalancing_process_instruction(S, authority, is_signer, validators, instruction_data) ==
    IF Len(instruction_data) = 0
    THEN Err("InvalidInstructionData", "empty", S)
    ELSE IF instruction_data[1] = 0
    THEN deposit(S, authority, is_signer, validators, Tail(instruction_data))
    ELSE IF instruction_data[1] = 1
    THEN withdraw(S, authority, is_signer, validators, Tail(instruction_data))
    ELSE Err("InvalidInstructionData", "opcode", S)

\* the pool and validator records as one memory
PoolMem == [pool |-> pool, stake |-> stake]

Range(f) == {f[i] : i \in DOMAIN f}

Distinct(validators) == Cardinality(Range(validators)) = Len(validators)

PoolInvoke(authority, is_signer, validators, instruction_data) ==
    LET r == rebalancing_process_instruction(PoolMem, authority, is_signer, validators,
                                             instruction_data)
    IN  /\ pool' = r.mem.pool
        /\ stake' = r.mem.stake
        /\ rblast' = [op |-> OpNameOf(instruction_data, "deposit", "withdraw"),
                      res |-> r.res, at |-> r.at,
                      uneven |-> /\ r.res = "Ok"
                                 /\ Distinct(validators)
                                 /\ r.mem.pool.total_stake % Len(validators) # 0]
        /\ UNCHANGED <<dpvars, slvars, orvars, tmvars>>

\* calls signed by the pool's authority
Deposit ==
    \E validators \in ValidatorLists :
        \E data \in AmountData :
            PoolInvoke(POOL_AUTHORITY, TRUE, validators, <<0>> \o data)

Withdraw ==
    \E validators \in ValidatorLists :
        \E data \in AmountData :
            PoolInvoke(POOL_AUTHORITY, TRUE, validators, <<1>> \o data)

\* the three validators of the tests, in their order
AllValidators == <<"va", "vb", "vc">>

\* calls by somebody else, or not signed
Unauthorized ==
    \E authority \in Authorities, is_signer \in BOOLEAN, op \in {0, 1}, a \in Amounts :
        /\ ~(authority = POOL_AUTHORITY /\ is_signer)
        /\ PoolInvoke(authority, is_signer, AllValidators, <<op, a>>)

PoolBadInstruction ==
    \E d \in {<<>>, <<2>>, <<2, 1>>} :
        PoolInvoke(POOL_AUTHORITY, TRUE, <<>>, d)

\* the tests' setup: the authority's key and total_stake 0 in the pool,
\* every validator at stake 0
InitRB ==
    /\ pool = [authority |-> POOL_AUTHORITY, total_stake |-> 0]
    /\ stake = [v \in Validators |-> 0]
    /\ rblast = [op |-> "none", res |-> "Ok", at |-> "end", uneven |-> FALSE]

\* ---------------------------------------------------- sneaky_oracle/secure
FEED_ACCOUNT_KEY == "feed"
ORACLE_PROVIDER == "provider"
PRICE_MAX_AGE == 3

Slots == 0..MaxSlot
Prices == {400, 600}

\* The oracle account a call names: its key, its owner and the OracleInfo
\* in its data.  The caller picks the account and whoever owns it has
\* written the data, so all of it is an input of the call.
OracleAccounts ==
    [key : {FEED_ACCOUNT_KEY, "other_feed"}, owner : {ORACLE_PROVIDER, "attacker"},
     update_slot : Slots, price : Prices]

\* u64::to_le_bytes and u64::from_le_bytes, on the two low bytes (the slots
\* of the model fit in them)
\* the bytes in the other order
to_be_bytes(n) == <<(n \div 256) % 256, n % 256>>

to_le_bytes(n) == <<n % 256, (n \div 256) % 256>>
from_le_bytes(b) == b[1] + 256 * b[2]

\* equal slots let through
StaleStrict(update_slot, last_seen_slot) == update_slot < last_seen_slot

\* oracle_data.update_slot <= last_seen_slot
Stale(update_slot, last_seen_slot) == update_slot <= last_seen_slot

\* any address taken for the feed
NotCanonicalNever(oracle) == FALSE

\* oracle.key().as_ref() != FEED_ACCOUNT_KEY
NotCanonical(oracle) == oracle.key # FEED_ACCOUNT_KEY

\* an age of PRICE_MAX_AGE refused as well
TooOldAtMax(age) == age >= PRICE_MAX_AGE

\* current_slot.checked_sub(update_slot)? > PRICE_MAX_AGE
TooOld(age) == age > PRICE_MAX_AGE

\* A is the AssetInfo record, oracle the account named first
oracle_process_instruction(A, oracle, slot) ==
    IF NotCanonical(oracle)
    THEN Err("InvalidAccountData", "feed_key", A)
    ELSE IF oracle.owner # ORACLE_PROVIDER
    THEN Err("IllegalOwner", "owner", A)
    ELSE LET age == CheckedSub(slot, oracle.update_slot)
         IN  IF age = <<>>
             THEN Err("InvalidAccountData", "future", A)
             ELSE IF TooOld(age[1])
             THEN Err("InvalidAccountData", "max_age", A)
             ELSE IF Stale(oracle.update_slot, from_le_bytes(A.last_update_slot))
             THEN Err("InvalidAccountData", "monotonic", A)
             ELSE Ok([price |-> oracle.price,
                      last_update_slot |-> to_le_bytes(oracle.update_slot)])

Update ==
    \E oracle \in OracleAccounts :
        LET r == oracle_process_instruction(asset, oracle, current_slot)
        IN  /\ asset' = r.mem
            /\ orlast' = [op |-> "update", res |-> r.res, at |-> r.at,
                          update_slot |-> oracle.update_slot]
            /\ UNCHANGED <<current_slot, dpvars, slvars, rbvars, tmvars>>

\* the Clock sysvar moves on
Tick ==
    /\ current_slot < MaxSlot
    /\ current_slot' = current_slot + 1
    /\ orlast' = [op |-> "tick", res |-> "Ok", at |-> "end", update_slot |-> 0]
    /\ UNCHANGED <<asset, dpvars, slvars, rbvars, tmvars>>

\* an asset record with a price seen at slot 0, the clock at slot 0
InitOR ==
    /\ asset = [price |-> 400, last_update_slot |-> to_le_bytes(0)]
    /\ current_slot = 0
    /\ orlast = [op |-> "none", res |-> "Ok", at |-> "end", update_slot |-> 0]

\* ------------------------------------------------------- timing/secure
\* the user accounts a call can name next to the pool
TUsers == {"alice", "bob"}

\* Clock::get().unix_timestamp runs from 0 to one past the last pool time
Times == 0..MaxTime
Clock == 0..(MaxTime + 1)

\* Pool.start_time, end_time, claim_time as whoever creates the pool account
\* sets them; the program never writes them and never compares them with
\* each other
Schedules == [start_time : {0, 1}, end_time : Times, claim_time : Times]

\* wrapping at the width of the word
WrappingAdd(a, b) == (a + b) % (MaxU64 + 1)

\* u64::saturating_add
SaturatingAdd(a, b) == IF a + b > MaxU64 THEN MaxU64 ELSE a + b

\* the window with its end included, and no start
\* (timing/insecure: now <= pool.end_time)
DepositClosedAfterEnd(P, t) == t > P.end_time

\* now < pool.start_time || now >= pool.end_time
DepositClosed(P, t) == t < P.start_time \/ t >= P.end_time

\* a claim refused at claim_time as well
ClaimClosedAtClaimTime(P, t) == t <= P.claim_time

\* now < pool.claim_time
ClaimClosed(P, t) == t < P.claim_time

\* M is [pool, user]: the Pool record and the User record of every user
\* account; user is the account named second, data the payload after the
\* selector (data[..8] of a shorter payload panics), t the clock
timing_deposit(M, user, data, t) ==
    IF Len(data) = 0
    THEN Err("Panic", "amount", M)
    ELSE IF DepositClosed(M.pool, t)
    THEN Err("InvalidInstructionData", "window", M)
    ELSE Ok([M EXCEPT !.user[user].deposited = SaturatingAdd(@, data[1]),
                      !.pool.total_deposited = SaturatingAdd(@, data[1])])

\* the reward is computed (saturating_mul, divisor at least 1) and dropped
timing_claim(M, user, t) ==
    IF ClaimClosed(M.pool, t)
    THEN Err("InvalidInstructionData", "claim_time", M)
    ELSE IF M.user[user].claimed
    THEN Err("InvalidAccountData", "claimed", M)
    ELSE Ok([M EXCEPT !.user[user].claimed = TRUE])

timing_process_instruction(M, user, instruction_data, t) ==
    IF Len(instruction_data) = 0
    THEN Err("InvalidInstructionData", "empty", M)
    ELSE IF instruction_data[1] = 0
    THEN timing_deposit(M, user, Tail(instruction_data), t)
    ELSE IF instruction_data[1] = 1
    THEN timing_claim(M, user, t)
    ELSE Err("InvalidInstructionData", "opcode", M)

\* the pool and user records as one memory
TimingMem == [pool |-> tpool, user |-> tuser]

TimingInvoke(user, instruction_data) ==
    LET r == timing_process_instruction(TimingMem, user, instruction_data, now)
    IN  /\ tpool' = r.mem.pool
        /\ tuser' = r.mem.user
        /\ tlast' = [op |-> OpNameOf(instruction_data, "deposit", "claim"),
                     res |-> r.res, at |-> r.at]
        /\ UNCHANGED <<now, dpvars, slvars, rbvars, orvars>>

StakeDeposit ==
    \E user \in TUsers, data \in AmountData : TimingInvoke(user, <<0>> \o data)

StakeClaim ==
    \E user \in TUsers : TimingInvoke(user, <<1>>)

StakeBadInstruction ==
    \E d \in {<<>>, <<2>>} : TimingInvoke("alice", d)

\* the clock moves on
Elapse ==
    /\ now \in Clock /\ now + 1 \in Clock
    /\ now' = now + 1
    /\ tlast' = [op |-> "elapse", res |-> "Ok", at |-> "end"]
    /\ UNCHANGED <<tpool, tuser, dpvars, slvars, rbvars, orvars>>

\* a pool with the given times and nothing deposited, users that have
\* deposited and claimed nothing, the clock at 0
TimingStart(schedule) ==
    /\ tpool = [start_time |-> schedule.start_time, end_time |-> schedule.end_time,
                claim_time |-> schedule.claim_time, total_deposited |-> 0]
    /\ tuser = [u \in TUsers |-> [deposited |-> 0, claimed |-> FALSE]]
    /\ now = 0
    /\ tlast = [op |-> "none", res |-> "Ok", at |-> "end"]

\* the first test's pool: the deposit window ends when the claim window opens
InitTM == TimingStart([start_time |-> 0, end_time |-> 1, claim_time |-> 1])

\* -------------------------------------------------------------------- Init
\* Parents and children as the tests set them up: owned by the program,
\* 8 and 32 bytes, every child bound to a parent, every parent counting
\* the children bound to it; users are system accounts without data.
InitAcct(bind) ==
    [a \in Addr |->
        IF a \in ParentAddr
        THEN [lamports |-> 2, owner |-> "program",
              data |-> <<Cardinality({c \in ChildAddr : bind[c] = a})>>]
        ELSE IF a \in ChildAddr
        THEN [lamports |-> 1, owner |-> "program", data |-> KeyWords(bind[a])]
        ELSE [lamports |-> 1, owner |-> "system", data |-> <<>>]]

InitDP ==
    /\ \E bind \in [ChildAddr -> ParentAddr] : acct = InitAcct(bind)
    /\ last = [op |-> "none", res |-> "Ok", at |-> "end", dup |-> FALSE, stale |-> FALSE]
    /\ closes = [a \in Addr |-> 0]
    /\ scen = [phase |-> 0, p |-> 0]

\* test_program: account_a is a Person, account_b an Employee, 9 bytes each
InitSL ==
    /\ sldata = [a \in SLAddr |->
                    IF a = "account_a" THEN [i \in 1..9 |-> PERSON_DISCRIMINATOR]
                    ELSE IF a = "account_b" THEN [i \in 1..9 |-> EMPLOYEE_DISCRIMINATOR]
                    ELSE [i \in 1..17 |-> 152]]
    /\ sllast = [res |-> "Ok", at |-> "none"]

\* the dangling_pointer records untouched, every child bound to one parent
IdleDP ==
    /\ acct = InitAcct([c \in ChildAddr |-> 101])
    /\ last = [op |-> "none", res |-> "Ok", at |-> "end", dup |-> FALSE, stale |-> FALSE]
    /\ closes = [a \in Addr |-> 0]
    /\ scen = [phase |-> 0, p |-> 0]

Init == InitDP /\ InitSL /\ InitRB /\ InitOR /\ InitTM

Next == CloseChild \/ CloseParent \/ BadInstruction

Spec == Init /\ [][Next]_vars

\* Calls that name the records in their roles: a child's address first
\* and a parent's second for close_child, a parent's address for
\* close_parent; the beneficiary is a user or one of the records named.
CloseChildInRole ==
    \E c \in ChildAddr, p \in ParentAddr :
        \E u \in UserAddr \cup {c, p}, pad \in Pads(c, CHILD_SIZE \div WORD_BYTES) :
            Invoke(<<c, p, u>>, <<0>>, pad)

CloseParentInRole ==
    \E p \in ParentAddr :
        \E u \in UserAddr \cup {p}, pad \in Pads(p, PARENT_SIZE \div WORD_BYTES) :
            Invoke(<<p, u>>, <<1>>, pad)

\* one of those calls that returns Ok
Succeeds ==
    \/ \E c \in ChildAddr, p \in ParentAddr :
           \E u \in UserAddr \cup {c, p}, pad \in Pads(c, CHILD_SIZE \div WORD_BYTES) :
               /\ process_instruction(acct, <<c, p, u>>, <<0>>, pad).res = "Ok"
               /\ Invoke(<<c, p, u>>, <<0>>, pad)
    \/ \E p \in ParentAddr :
           \E u \in UserAddr \cup {p}, pad \in Pads(p, PARENT_SIZE \div WORD_BYTES) :
               /\ process_instruction(acct, <<p, u>>, <<1>>, pad).res = "Ok"
               /\ Invoke(<<p, u>>, <<1>>, pad)

NextClosable == CloseChildInRole \/ CloseParentInRole \/ BadInstruction

\* callers go on submitting calls: while some call would succeed, a call
\* that succeeds is eventually made; calls that fail may be made for ever
SpecClosable == Init /\ [][NextClosable]_vars /\ WF_vars(Succeeds)

\* the same with the environment recreating records at emptied addresses
NextRecreate == CloseChild \/ CloseParent \/ BadInstruction \/ Recreate

SpecRecreate == Init /\ [][NextRecreate]_vars

\* the rebalancing pool alone
NextPool == Deposit \/ Withdraw \/ Unauthorized \/ PoolBadInstruction

InitPool == IdleDP /\ InitSL /\ InitRB /\ InitOR /\ InitTM

SpecPool == InitPool /\ [][NextPool]_vars

\* the oracle consumer alone, with the clock
NextOracle == Update \/ Tick

InitOracle == IdleDP /\ InitSL /\ InitRB /\ InitOR /\ InitTM

SpecOracle == InitOracle /\ [][NextOracle]_vars

\* the staking pool alone, with the clock, for every schedule
NextTiming == StakeDeposit \/ StakeClaim \/ StakeBadInstruction \/ Elapse

InitTiming ==
    /\ IdleDP /\ InitSL /\ InitRB /\ InitOR
    /\ \E schedule \in Schedules : TimingStart(schedule)

SpecTiming == InitTiming /\ [][NextTiming]_vars

\* the two handlers that take two record roles
NextAlias == CloseChild \/ Checks

SpecAlias == Init /\ [][NextAlias]_vars

\* ------------------------------------------------------------------ calls
\* every call a state admits, as the actions above draw them
ChildCalls == {<<c, p, u, pad>> \in Addr \X Addr \X Addr \X OverRead : u \in UserAddr \cup {c, p}}
ParentCalls == {<<p, u, pad>> \in Addr \X Addr \X OverRead : u \in UserAddr \cup {p}}

\* a record closed by the program and not recreated since
Reclaimed(x) == closes[x] > 0

\* ----------------------------------------------------------------- claims

\* C1: starting from counts that equal the number of live bound children,
\* after any sequence of close_child and close_parent calls every live
\* parent's child_count equals the number of live children bound to it.
C1_CountEqualsLiveChildren ==
    \A p \in Addr : LiveParent(acct, p) => Count(acct, p) = Cardinality(Bound(acct, p))

\* C2: close_parent fails and leaves the parent as it was whenever its
\* child_count is positive, and no state has a reclaimed parent together
\* with a live child bound to it.
C2_NoPrematureParentClosure ==
    /\ \A call \in ParentCalls :
          LET p == call[1]
              r == close_parent(acct, p, call[2], call[3])
          IN  (LiveParent(acct, p) /\ Count(acct, p) > 0) =>
                  (r.at = "child_count" /\ r.mem = acct)
    /\ \A p \in ParentAddr : Reclaimed(p) => Bound(acct, p) = {}

\* C3: close_child against a parent whose child_count is 0 fails at the
\* checked subtraction or before it and the count stays 0; no count ever
\* leaves the range of the number of children.
C3_CountNeverUnderflows ==
    /\ \A call \in ChildCalls :
          LET p == call[2]
              r == close_child(acct, call[1], p, call[3], call[4])
          IN  (data_len(acct[p]) = PARENT_SIZE /\ Count(acct, p) = 0) =>
                  /\ r.res # "Ok"
                  /\ r.mem[p].data = acct[p].data
                  /\ (Bound(acct, p) # {} /\ call[1] \in Bound(acct, p) /\ LiveParent(acct, p)) =>
                         (r.res = "InvalidAccountData" /\ r.at = "checked_sub")
    /\ \A a \in Addr : data_len(acct[a]) = PARENT_SIZE => Count(acct, a) \in 0..NChildren

\* a close_child reached the subtraction with the count at 0 and was refused
C3_Witness ==
    /\ last.op = "close_child"
    /\ last.at = "checked_sub"
    /\ last.res = "InvalidAccountData"
    /\ \E p \in ParentAddr : LiveParent(acct, p) /\ Count(acct, p) = 0 /\ Bound(acct, p) # {}

\* C4: once a record with another custody tag stands at a parent's address,
\* every close_child naming that address as the parent fails with
\* IllegalOwner or InvalidAccountData and changes nothing.
C4_DanglingReferenceRejected ==
    \A call \in ChildCalls :
        LET r == close_child(acct, call[1], call[2], call[3], call[4])
        IN  (call[2] \in ParentAddr /\ acct[call[2]].owner = "other") =>
                (r.res \in {"IllegalOwner", "InvalidAccountData"} /\ r.mem = acct)

\* C5: a call naming one address as child and parent (close_child) or as
\* person and employee (account-check handler) fails with
\* InvalidAccountData, the code's error for it, and changes no record.
C5_AliasingRejected ==
    /\ \A call \in ChildCalls :
          LET r == close_child(acct, call[1], call[2], call[3], call[4])
          IN  call[1] = call[2] => (r.res = "InvalidAccountData" /\ r.mem = acct)
    /\ \A accounts \in AccountLists :
          LET r == checks_process_instruction(sldata, accounts)
          IN  (Len(accounts) >= 3 /\ accounts[2] = accounts[3]) =>
                  (r.res = "InvalidAccountData" /\ r.mem = sldata)

\* both handlers have refused an aliased call, close_child one that named a
\* live parent as its own child
C5_Witness ==
    /\ last.op = "close_child" /\ last.dup /\ last.at = "back_ref"
    /\ sllast.at = "alias" /\ sllast.res = "InvalidAccountData"

\* C6: every close_child or close_parent naming a reclaimed record as the
\* record to close fails and credits nobody, and no record is closed twice.
C6_ReclaimedStaysClosed ==
    /\ \A call \in ChildCalls :
          LET r == close_child(acct, call[1], call[2], call[3], call[4])
          IN  Reclaimed(call[1]) =>
                  (r.res # "Ok" /\ \A a \in Addr : r.mem[a].lamports = acct[a].lamports)
    /\ \A call \in ParentCalls :
          LET r == close_parent(acct, call[1], call[2], call[3])
          IN  Reclaimed(call[1]) =>
                  (r.res # "Ok" /\ \A a \in Addr : r.mem[a].lamports = acct[a].lamports)
    /\ \A a \in Addr : closes[a] <= 1

\* a close naming an already reclaimed record was refused
C6_Witness ==
    /\ last.stale
    /\ last.op \in {"close_child", "close_parent"}
    /\ last.res # "Ok"
    /\ \E a \in Addr : closes[a] = 1

\* C7: for a live parent with count 1, its one bound child and a user as
\* beneficiary: close_parent is refused at the count and changes nothing;
\* close_child then succeeds and leaves the count 0; close_parent then
\* succeeds and the user's lamports grow by exactly the parent's lamports.
C7_ChildThenParentScenario ==
    \A p \in Addr, c \in Addr, u \in UserAddr, pad \in OverRead :
        (LiveParent(acct, p) /\ Count(acct, p) = 1 /\ Bound(acct, p) = {c}) =>
            LET r1 == close_parent(acct, p, u, pad)
                r2 == close_child(r1.mem, c, p, u, pad)
                r3 == close_parent(r2.mem, p, u, pad)
            IN  /\ r1.res # "Ok" /\ r1.at = "child_count" /\ r1.mem = acct
                /\ r2.res = "Ok" /\ Count(r2.mem, p) = 0
                /\ r2.mem[p].lamports = acct[p].lamports
                /\ r3.res = "Ok"
                /\ r3.mem[u].lamports = r2.mem[u].lamports + acct[p].lamports

\* the three calls have run in this order on one parent
C7_Witness ==
    /\ scen.phase = 3
    /\ last.op = "close_parent" /\ last.res = "Ok"
    /\ closes[scen.p] = 1

\* C8: close_parent on a live parent of this program with count 0, the
\* beneficiary being another account, succeeds at once and leaves the
\* parent reclaimed: no lamports, system-owned, no data.
C8_ChildlessParentCloses ==
    \A call \in ParentCalls :
        LET p == call[1]
            r == close_parent(acct, p, call[2], call[3])
        IN  (LiveParent(acct, p) /\ Count(acct, p) = 0 /\ call[2] # p) =>
                /\ r.res = "Ok"
                /\ r.mem[p] = [lamports |-> 0, owner |-> "system", data |-> <<>>]

\* a parent was closed by the first call that succeeded, every child still live
C8_Witness ==
    /\ last.op = "close_parent" /\ last.res = "Ok"
    /\ \E p \in ParentAddr : closes[p] = 1 /\ \A a \in Addr \ {p} : closes[a] = 0
    /\ \A c \in ChildAddr : acct[c].lamports > 0

\* C9: a close_child naming a parent that was reclaimed fails at one of the
\* parent checks and changes nothing; while the reclaimed parent has no
\* lamports it fails at the first of them.
C9_CloseChildAfterParentFails ==
    \A call \in ChildCalls :
        LET p == call[2]
            r == close_child(acct, call[1], p, call[3], call[4])
        IN  Reclaimed(p) =>
                /\ r.res # "Ok"
                /\ r.at \in {"parent_lamports", "owner", "parent_len"}
                /\ r.mem = acct
                /\ acct[p].lamports = 0 =>
                       (r.res = "InvalidAccountData" /\ r.at = "parent_lamports")

\* close_parent succeeded and the very next call, a close_child naming that
\* parent, was refused for the parent's missing lamports
C9_Witness ==
    /\ scen.phase = 4
    /\ last.op = "close_child"
    /\ last.res = "InvalidAccountData" /\ last.at = "parent_lamports"

\* C10: a call that returns an error leaves every record as it was.
C10_NoPartialMutation == [][last'.res # "Ok" => acct' = acct]_vars

\* C11: after a successful close_child or close_parent the closed record has
\* no lamports, the system program as owner and no data, and the
\* beneficiary's lamports have grown by exactly the lamports the record had.
C11_ReclamationEffects ==
    /\ \A call \in ChildCalls :
          LET c == call[1]
              u == call[3]
              r == close_child(acct, c, call[2], u, call[4])
          IN  r.res = "Ok" =>
                  /\ r.mem[c] = [lamports |-> 0, owner |-> "system", data |-> <<>>]
                  /\ r.mem[u].lamports = acct[u].lamports + acct[c].lamports
    /\ \A call \in ParentCalls :
          LET p == call[1]
              u == call[2]
              r == close_parent(acct, p, u, call[3])
          IN  r.res = "Ok" =>
                  /\ r.mem[p] = [lamports |-> 0, owner |-> "system", data |-> <<>>]
                  /\ r.mem[u].lamports = acct[u].lamports + acct[p].lamports
    /\ \A a \in Addr : Reclaimed(a) =>
          acct[a] = [lamports |-> 0, owner |-> "system", data |-> <<>>]

\* a child and then its parent have been closed, each into another account
C11_Witness ==
    /\ last.op = "close_parent" /\ last.res = "Ok" /\ ~last.dup
    /\ \E c \in ChildAddr : closes[c] = 1
    /\ \E p \in ParentAddr : closes[p] = 1 /\ acct[p].lamports = 0

\* ------------------------------------------------------- reclamation steps
\* eight bytes of 0xff read as one word (the fill of the insecure variant)
SENTINEL_WORD == -1

\* every word a record's content can be filled with
Patterns == {SENTINEL_WORD} \cup (0..NChildren) \cup Addr

\* The memory after each statement of the reclamation of record x in favour
\* of u, as close_child and close_parent write it: on entry, after the
\* lamports are credited, after assign, after resize(0) and close().
ReclaimSteps(A, u, x) ==
    LET A1 == Credit(A, u, x)
        A2 == [A1 EXCEPT ![x].owner = "system"]
    IN  <<A, A1, A2, Reclaim(A2, x)>>

\* C12: there is one sentinel pattern such that every successful close_child
\* and close_parent has the whole content of the record it closes
\* overwritten with that pattern by the time the lamports have been moved,
\* before the data is shrunk.
C12_SentinelBeforeMove ==
    \E s \in Patterns :
        /\ \A call \in ChildCalls :
              LET c == call[1]
                  r == close_child(acct, c, call[2], call[3], call[4])
                  steps == ReclaimSteps(acct, call[3], c)
              IN  r.res = "Ok" =>
                      /\ steps[4][c] = r.mem[c]
                      /\ steps[2][c].data = Fill(acct[c].data, s)
        /\ \A call \in ParentCalls :
              LET p == call[1]
                  r == close_parent(acct, p, call[2], call[3])
                  steps == ReclaimSteps(acct, call[2], p)
              IN  r.res = "Ok" =>
                      /\ steps[4] = r.mem
                      /\ steps[2][p].data = Fill(acct[p].data, s)

\* payloads of up to two bytes
Bytes == {0, 1, 2, 255}
Payloads == UNION {[1..n -> Bytes] : n \in 0..2}

\* C13: the first byte of the payload selects the operation, 0 close_child
\* and 1 close_parent, whatever follows it; an empty payload and any other
\* first byte are refused with InvalidInstructionData, the code's error for
\* an unknown operation, and no record is changed.
C13_OperationSelection ==
    \A d \in Payloads, call \in ChildCalls :
        LET r == process_instruction(acct, <<call[1], call[2], call[3]>>, d, call[4])
        IN  IF d = <<>> \/ d[1] \notin {0, 1}
            THEN r.res = "InvalidInstructionData" /\ r.mem = acct
            ELSE IF d[1] = 0
            THEN r = close_child(acct, call[1], call[2], call[3], call[4])
            ELSE r = close_parent(acct, call[1], call[2], call[4])

\* a payload with an unknown first byte was refused after a record was closed,
\* and a record that could still be closed is left
C13_Witness ==
    /\ last.op = "unknown"
    /\ last.res = "InvalidInstructionData" /\ last.at = "opcode"
    /\ \E a \in Addr : closes[a] = 1
    /\ \E call \in ParentCalls : close_parent(acct, call[1], call[2], call[3]).res = "Ok"

\* C14: close_child and close_parent fail with IllegalOwner and change
\* nothing whenever the owner of the parent record named in the call is not
\* this program, also when the child named with it has that same owner
\* (for close_child: a record standing at a parent's address).
C14_CustodyCheck ==
    /\ \A call \in ChildCalls :
          LET p == call[2]
              r == close_child(acct, call[1], p, call[3], call[4])
          IN  (p \in ParentAddr /\ acct[p].owner # "program" /\ acct[p].lamports > 0) =>
                  (r.res = "IllegalOwner" /\ r.mem = acct)
    /\ \A call \in ParentCalls :
          LET p == call[1]
              r == close_parent(acct, p, call[2], call[3])
          IN  acct[p].owner # "program" => (r.res = "IllegalOwner" /\ r.mem = acct)

\* --------------------------------------------------------- record layouts
\* The handlers are given the accounts by the caller.  Besides the records
\* the tests set up, an account of any length can be owned by the program
\* with all its bytes zero (an account created for the program and never
\* written); lengths in words.
ZeroLens == {0, 2, 4}

ZeroFilled(n) == [i \in 1..n |-> 0]

RecordShapes(a) == RecreateData(a) \cup {ZeroFilled(n) : n \in ZeroLens}

InitLayout ==
    /\ \E shape \in [ParentAddr \cup ChildAddr -> UNION {RecordShapes(a) : a \in ParentAddr \cup ChildAddr}] :
          /\ \A a \in ParentAddr \cup ChildAddr : shape[a] \in RecordShapes(a)
          /\ acct = [a \in Addr |->
                        IF a \in UserAddr
                        THEN [lamports |-> 1, owner |-> "system", data |-> <<>>]
                        ELSE [lamports |-> 1, owner |-> "program", data |-> shape[a]]]
    /\ last = [op |-> "none", res |-> "Ok", at |-> "end", dup |-> FALSE, stale |-> FALSE]
    /\ closes = [a \in Addr |-> 0]
    /\ scen = [phase |-> 0, p |-> 0]
    /\ InitSL
    /\ InitRB
    /\ InitOR
    /\ InitTM

SpecLayout == InitLayout /\ [][Next]_vars

\* C15: a close_child naming a parent whose length is not 8 bytes or a child
\* whose length is not 32 bytes, and a close_parent naming a parent whose
\* length is not 8 bytes, fails at a length check, before a field of the
\* record is read, and changes nothing.
C15_LayoutChecked ==
    /\ \A call \in ChildCalls :
          LET c == call[1]
              p == call[2]
              r == close_child(acct, c, p, call[3], call[4])
          IN  (data_len(acct[p]) # PARENT_SIZE \/ data_len(acct[c]) # CHILD_SIZE) =>
                  /\ r.res # "Ok"
                  /\ r.at \in {"parent_lamports", "owner", "parent_len"}
                  /\ r.mem = acct
    /\ \A call \in ParentCalls :
          LET p == call[1]
              r == close_parent(acct, p, call[2], call[3])
          IN  data_len(acct[p]) # PARENT_SIZE =>
                  /\ r.res # "Ok"
                  /\ r.at = "owner"
                  /\ r.mem = acct

\* C16: close_child succeeds only if the parent key stored in the child is
\* the key of the parent account named in the call; with any other parent
\* named it fails and leaves that parent and the child as they were.
C16_BackReferenceChecked ==
    \A call \in ChildCalls :
        LET c == call[1]
            p == call[2]
            r == close_child(acct, c, p, call[3], call[4])
        IN  /\ r.res = "Ok" => acct[c].data = KeyWords(p)
            /\ acct[c].data # KeyWords(p) =>
                   /\ r.res # "Ok"
                   /\ r.mem[p] = acct[p]
                   /\ r.mem[c] = acct[c]

\* a close_child naming a live child and a live parent with a positive
\* count other than the child's own was refused at the comparison
C16_Witness ==
    /\ last.op = "close_child" /\ ~last.dup
    /\ last.res = "InvalidAccountData" /\ last.at = "back_ref"
    /\ \E c \in ChildAddr, p \in ParentAddr :
          /\ acct[c].owner = "program" /\ acct[c].lamports > 0
          /\ acct[c].data # KeyWords(p)
          /\ LiveParent(acct, p) /\ Count(acct, p) > 0

\* ------------------------------------------------- account-check handler
\* size_of::<Person>() and size_of::<_Employee>(): a discriminator and 8 bytes
SHAPE_SIZE == 9

\* The caller chooses the accounts: data of 8, 9 or 10 bytes that starts
\* with either discriminator, the rest zero.
SLLens == {SHAPE_SIZE - 1, SHAPE_SIZE, SHAPE_SIZE + 1}

SLShapes ==
    {[i \in 1..n |-> IF i = 1 THEN d ELSE 0] :
        d \in {PERSON_DISCRIMINATOR, EMPLOYEE_DISCRIMINATOR}, n \in SLLens}

InitChecks ==
    /\ InitDP
    /\ \E sa \in SLShapes, sb \in SLShapes :
          sldata = [a \in SLAddr |->
                       IF a = "account_a" THEN sa
                       ELSE IF a = "account_b" THEN sb
                       ELSE [i \in 1..17 |-> 152]]
    /\ sllast = [res |-> "Ok", at |-> "none"]
    /\ InitRB
    /\ InitOR
    /\ InitTM

SpecChecks == InitChecks /\ [][Checks]_vars

\* an account of the shape with discriminator disc
HasShape(d, disc) == Len(d) = SHAPE_SIZE /\ d[1] = disc

\* C17: a call whose person account does not start with PERSON_DISCRIMINATOR
\* or is not 9 bytes long, or whose employee account does not start with
\* EMPLOYEE_DISCRIMINATOR or is not 9 bytes long, is refused and no account
\* is written.
C17_TypeTagChecked ==
    \A accounts \in AccountLists :
        LET r == checks_process_instruction(sldata, accounts)
        IN  (/\ Len(accounts) >= 3
             /\ \/ ~HasShape(sldata[accounts[2]], PERSON_DISCRIMINATOR)
                \/ ~HasShape(sldata[accounts[3]], EMPLOYEE_DISCRIMINATOR)) =>
                (r.res # "Ok" /\ r.mem = sldata)

\* ------------------------------------------------------- rebalancing pool
\* every call signed by the pool's authority: selector, amount, validators
PoolCalls == {0, 1} \X Amounts \X ValidatorLists

PoolCall(call) ==
    rebalancing_process_instruction(PoolMem, POOL_AUTHORITY, TRUE, call[3],
                                    <<call[1], call[2]>>)

StakeSum(S) ==
    LET RECURSIVE Sum(_)
        Sum(V) == IF V = {} THEN 0
                  ELSE LET v == CHOOSE x \in V : TRUE IN S.stake[v] + Sum(V \ {v})
    IN  Sum(Validators)

\* the stakes of the pool's validators differ by at most 1 and add up to
\* pool.total_stake
Uniform(S) ==
    /\ \A v \in Validators, w \in Validators : S.stake[v] - S.stake[w] <= 1
    /\ StakeSum(S) = S.pool.total_stake

\* C18: a successful deposit or withdraw, whichever validator accounts the
\* caller passes, takes a pool whose validators' stakes differ by at most 1
\* and add up to pool.total_stake to a pool of which the same holds.
C18_UniformDistribution ==
    \A call \in PoolCalls :
        LET r == PoolCall(call)
        IN  (Uniform(PoolMem) /\ r.res = "Ok") => Uniform(r.mem)

\* C19: after a successful deposit or withdraw naming n >= 1 distinct
\* validators, with T the new total (the old one plus or minus the amount),
\* the i-th validator named holds T div n, plus 1 if i <= T mod n, whatever
\* the validators held before.
C19_RebalanceShares ==
    \A call \in PoolCalls :
        LET r == PoolCall(call)
            validators == call[3]
            n == Len(validators)
            T == r.mem.pool.total_stake
        IN  (r.res = "Ok" /\ Distinct(validators)) =>
                /\ n >= 1
                /\ T = IF call[1] = 0 THEN pool.total_stake + call[2]
                                      ELSE pool.total_stake - call[2]
                /\ \A i \in 1..n :
                      r.mem.stake[validators[i]] =
                          (T \div n) + (IF i <= T % n THEN 1 ELSE 0)
                /\ T % n = 0 => \A i \in 1..n : n * r.mem.stake[validators[i]] = T

\* a call spread a total over distinct validators that do not divide it, and
\* a validator holds a share of more than the extra 1
C19_Witness ==
    /\ rblast.res = "Ok" /\ rblast.uneven
    /\ rblast.op \in {"deposit", "withdraw"}
    /\ \E v \in Validators, w \in Validators : stake[v] >= 2 /\ stake[w] = stake[v] - 1

\* ---------------------------------------------------------- oracle consumer
LastSeen(A) == from_le_bytes(A.last_update_slot)

\* C20: the stored last_update_slot never decreases and the stored record
\* changes only with a strictly larger slot; a call whose oracle update_slot
\* is less than or equal to the stored slot is refused and leaves the stored
\* price and slot as they were, and a successful update stores a strictly
\* larger slot.
C20_NoRollback ==
    [][/\ LastSeen(asset') >= LastSeen(asset)
       /\ asset' # asset => LastSeen(asset') > LastSeen(asset)
       /\ orlast'.op = "update" =>
             /\ orlast'.update_slot <= LastSeen(asset) =>
                    (orlast'.res # "Ok" /\ asset' = asset)
             /\ orlast'.res = "Ok" => LastSeen(asset') > LastSeen(asset)]_vars

\* after an accepted update, a call with the canonical feed at an older slot
\* that is still fresh was refused at the comparison of the slots
C20_Witness ==
    /\ orlast.op = "update"
    /\ orlast.res = "InvalidAccountData" /\ orlast.at = "monotonic"
    /\ LastSeen(asset) > 1
    /\ orlast.update_slot < LastSeen(asset)
    /\ asset.price = 600

\* every oracle account a call can name, with the handler's answer to it
OracleCall(oracle) == oracle_process_instruction(asset, oracle, current_slot)

\* C21: an update succeeds only if the oracle account's key is
\* FEED_ACCOUNT_KEY and its owner ORACLE_PROVIDER; with any other key the
\* call fails at the key comparison, whoever owns the account, and with the
\* canonical key and another owner it fails with IllegalOwner; in both cases
\* the asset record stays as it was.
C21_CanonicalFeedOnly ==
    \A oracle \in OracleAccounts :
        LET r == OracleCall(oracle)
        IN  /\ r.res = "Ok" =>
                  (oracle.key = FEED_ACCOUNT_KEY /\ oracle.owner = ORACLE_PROVIDER)
            /\ oracle.key # FEED_ACCOUNT_KEY =>
                  (r.res = "InvalidAccountData" /\ r.at = "feed_key" /\ r.mem = asset)
            /\ (oracle.key = FEED_ACCOUNT_KEY /\ oracle.owner # ORACLE_PROVIDER) =>
                  (r.res = "IllegalOwner" /\ r.mem = asset)

\* after an accepted update, a call naming another address was refused at
\* the key comparison although a fresh, newer price was there to be taken
C21_Witness ==
    /\ orlast.op = "update"
    /\ orlast.res = "InvalidAccountData" /\ orlast.at = "feed_key"
    /\ LastSeen(asset) > 0
    /\ orlast.update_slot > LastSeen(asset)
    /\ orlast.update_slot <= current_slot
    /\ current_slot - orlast.update_slot <= PRICE_MAX_AGE

\* C22: a successful update leaves the oracle's price as the asset's price
\* and the oracle's update_slot as its last_update_slot; a call naming the
\* canonical feed, owned by the provider, with an update_slot above the
\* stored slot, not above the current slot and at most PRICE_MAX_AGE below
\* it, succeeds.
C22_UpdateStoresOracleData ==
    \A oracle \in OracleAccounts :
        LET r == OracleCall(oracle)
        IN  /\ r.res = "Ok" =>
                  /\ r.mem.price = oracle.price
                  /\ from_le_bytes(r.mem.last_update_slot) = oracle.update_slot
            /\ (/\ oracle.key = FEED_ACCOUNT_KEY
                /\ oracle.owner = ORACLE_PROVIDER
                /\ oracle.update_slot > LastSeen(asset)
                /\ oracle.update_slot <= current_slot
                /\ current_slot - oracle.update_slot <= PRICE_MAX_AGE) =>
                   r.res = "Ok"

\* an update was accepted and changed the price, one slot after the stored
\* one had been accepted
C22_Witness ==
    /\ orlast.op = "update" /\ orlast.res = "Ok"
    /\ asset.price = 600
    /\ LastSeen(asset) = orlast.update_slot
    /\ LastSeen(asset) >= 2
    /\ current_slot > LastSeen(asset)

\* C23: a deposit that carries an amount succeeds exactly when
\* start_time <= now < end_time; at now = end_time, at any later time and
\* before start_time it is rejected, and a rejected deposit leaves
\* user.deposited and pool.total_deposited (and every other field) as they
\* were.
C23_DepositWindow ==
    \A user \in TUsers, amount \in Amounts :
        LET r == timing_process_instruction(TimingMem, user, <<0, amount>>, now)
            inside == tpool.start_time <= now /\ now < tpool.end_time
        IN  /\ r.res = "Ok" <=> inside
            /\ (now >= tpool.end_time \/ now < tpool.start_time) =>
                   /\ r.res = "InvalidInstructionData"
                   /\ r.mem.user[user].deposited = tuser[user].deposited
                   /\ r.mem.pool.total_deposited = tpool.total_deposited
            /\ r.res # "Ok" => r.mem = TimingMem

\* a deposit was refused at now = end_time, in a pool that took a deposit
\* while its window was open
C23_Witness ==
    /\ tlast.op = "deposit" /\ tlast.res = "InvalidInstructionData"
    /\ tlast.at = "window"
    /\ now = tpool.end_time
    /\ tpool.start_time < tpool.end_time
    /\ tpool.total_deposited > 0

\* C24: in a pool with end_time = claim_time there is no timestamp at which
\* a deposit succeeds and a claim succeeds, whichever users make them and in
\* whichever order: a deposit followed by a claim at one timestamp never
\* both succeed.
C24_NoDepositAndClaimAtOneTime ==
    tpool.end_time = tpool.claim_time =>
        \A t \in Clock, depositor \in TUsers, claimer \in TUsers, amount \in Amounts :
            LET d == timing_process_instruction(TimingMem, depositor, <<0, amount>>, t)
                c == timing_process_instruction(TimingMem, claimer, <<1>>, t)
                dc == timing_process_instruction(d.mem, claimer, <<1>>, t)
                cd == timing_process_instruction(c.mem, depositor, <<0, amount>>, t)
            IN  /\ ~(d.res = "Ok" /\ dc.res = "Ok")
                /\ ~(c.res = "Ok" /\ cd.res = "Ok")
                /\ ~(d.res = "Ok" /\ c.res = "Ok")

\* at now = end_time = claim_time a user who deposited earlier has claimed,
\* and a deposit at this time is refused
C24_Witness ==
    /\ tpool.end_time = tpool.claim_time
    /\ now = tpool.claim_time
    /\ tlast.op = "claim" /\ tlast.res = "Ok"
    /\ \E user \in TUsers : tuser[user].claimed /\ tuser[user].deposited > 0
    /\ \A user \in TUsers :
           timing_process_instruction(TimingMem, user, <<0, 1>>, now).res # "Ok"

\* C25: a claim succeeds exactly when now >= claim_time and the user has not
\* claimed, now = claim_time included; it is rejected at every
\* now < claim_time; a successful claim sets user.claimed and changes
\* nothing else, so user.deposited and pool.total_deposited stay.
C25_ClaimWindow ==
    \A user \in TUsers :
        LET r == timing_process_instruction(TimingMem, user, <<1>>, now)
        IN  /\ r.res = "Ok" <=> (now >= tpool.claim_time /\ ~tuser[user].claimed)
            /\ now < tpool.claim_time =>
                   (r.res = "InvalidInstructionData" /\ r.mem = TimingMem)
            /\ r.res = "Ok" =>
                   /\ r.mem.user[user].claimed
                   /\ r.mem.user[user].deposited = tuser[user].deposited
                   /\ r.mem.pool = tpool
                   /\ \A other \in TUsers \ {user} : r.mem.user[other] = tuser[other]

\* a user with a deposit has claimed at exactly claim_time
C25_Witness ==
    /\ tlast.op = "claim" /\ tlast.res = "Ok" /\ tlast.at = "end"
    /\ now = tpool.claim_time
    /\ tpool.end_time < tpool.claim_time
    /\ tpool.total_deposited > 0
    /\ \E user \in TUsers : tuser[user].claimed /\ tuser[user].deposited > 0

\* the values of a u64 word
Words == 0..MaxU64

\* C29: a deposit adds with saturation: from any user.deposited and
\* pool.total_deposited a successful deposit leaves each at the old value
\* plus the amount, or at the largest value of the word when that sum does
\* not fit, so neither wraps and neither decreases; a failed deposit and a
\* claim leave both as they were; and if pool.total_deposited was at least
\* user.deposited before a deposit it is so after it.
C29_SaturatingDeposits ==
    \A user \in TUsers, amount \in Amounts, deposited \in Words, total \in Words :
        LET M == [TimingMem EXCEPT !.user[user].deposited = deposited,
                                   !.pool.total_deposited = total]
            r == timing_process_instruction(M, user, <<0, amount>>, now)
            c == timing_process_instruction(M, user, <<1>>, now)
            after == r.mem.user[user].deposited
            total_after == r.mem.pool.total_deposited
        IN  /\ after \in Words /\ total_after \in Words
            /\ after >= deposited /\ total_after >= total
            /\ r.res = "Ok" =>
                   /\ after = (IF deposited + amount \in Words
                               THEN deposited + amount ELSE MaxU64)
                   /\ total_after = (IF total + amount \in Words
                                     THEN total + amount ELSE MaxU64)
            /\ total >= deposited => total_after >= after
            /\ c.mem.user[user].deposited = deposited
            /\ c.mem.pool.total_deposited = total

\* a deposit was taken with the pool's total at the largest value of the
\* word while the users' deposits add up to more than fits
C29_Witness ==
    /\ tlast.op = "deposit" /\ tlast.res = "Ok"
    /\ tpool.total_deposited = MaxU64
    /\ tuser["alice"].deposited + tuser["bob"].deposited > MaxU64
    /\ \A user \in TUsers : tpool.total_deposited >= tuser[user].deposited

\* every deposit and withdraw call that carries an amount: the account
\* named as authority, whether it signed, the operation, the amount, the
\* validator accounts
AuthorityCalls == Authorities \X BOOLEAN \X {0, 1} \X Amounts \X ValidatorLists

AuthorityCall(call) ==
    rebalancing_process_instruction(PoolMem, call[1], call[2], call[5], <<call[3], call[4]>>)

\* C26: deposit and withdraw succeed only if the account named as authority
\* signed and its address is the one stored in the pool record; a call whose
\* authority did not sign is rejected with MissingRequiredSignature, a signed
\* call whose authority has another address with IllegalOwner, and in both
\* cases pool.total_stake and every validator's stake are as before the call.
C26_AuthorityEnforced ==
    \A call \in AuthorityCalls :
        LET r == AuthorityCall(call)
            authority == call[1]
            is_signer == call[2]
        IN  /\ r.res = "Ok" => (is_signer /\ authority = pool.authority)
            /\ ~is_signer =>
                   (r.res = "MissingRequiredSignature" /\ r.mem = PoolMem)
            /\ (is_signer /\ authority # pool.authority) =>
                   (r.res = "IllegalOwner" /\ r.mem = PoolMem)

\* a signed call by another account was refused with IllegalOwner at a pool
\* that holds stake, after which total_stake and the stakes still agree
C26_Witness ==
    /\ rblast.op \in {"deposit", "withdraw"}
    /\ rblast.res = "IllegalOwner" /\ rblast.at = "authority"
    /\ pool.total_stake > 0
    /\ Uniform(PoolMem)

\* C27: pool.total_stake never leaves the range of its word: a withdraw of
\* more than total_stake and a deposit that takes total_stake above the
\* largest value of the word are rejected with total_stake (and everything
\* else) as it was; after a successful call total_stake is the old value
\* plus the amount of a deposit or minus the amount of a withdraw.
C27_TotalStakeNeverWraps ==
    \A call \in AuthorityCalls :
        LET r == AuthorityCall(call)
            op == call[3]
            amount == call[4]
            total == pool.total_stake
        IN  /\ r.mem.pool.total_stake \in 0..MaxU64
            /\ (op = 1 /\ amount > total) =>
                   (r.res # "Ok" /\ r.mem.pool.total_stake = total /\ r.mem = PoolMem)
            /\ (op = 0 /\ total + amount > MaxU64) =>
                   (r.res # "Ok" /\ r.mem.pool.total_stake = total /\ r.mem = PoolMem)
            /\ (r.res = "Ok" /\ op = 0) => r.mem.pool.total_stake = total + amount
            /\ (r.res = "Ok" /\ op = 1) => r.mem.pool.total_stake = total - amount

\* the authority's deposit was refused at the addition, with the pool's
\* total within one amount of the largest value
C27_Witness ==
    /\ rblast.op = "deposit"
    /\ rblast.res = "InvalidAccountData" /\ rblast.at = "checked_add"
    /\ pool.total_stake + MaxAmount > MaxU64
    /\ pool.total_stake \in 1..MaxU64

\* C28: an update is accepted only if the oracle's update_slot is not above
\* the current slot and at most PRICE_MAX_AGE below it; an update_slot above
\* the current slot is rejected with the asset record unchanged, and the
\* canonical feed with an update_slot exactly PRICE_MAX_AGE below the
\* current slot, newer than the stored one, is accepted.
C28_FreshnessWindow ==
    \A oracle \in OracleAccounts :
        LET r == OracleCall(oracle)
        IN  /\ r.res = "Ok" =>
                   /\ 0 <= current_slot - oracle.update_slot
                   /\ current_slot - oracle.update_slot <= PRICE_MAX_AGE
            /\ oracle.update_slot > current_slot =>
                   (r.res # "Ok" /\ r.mem = asset)
            /\ current_slot - oracle.update_slot > PRICE_MAX_AGE =>
                   (r.res # "Ok" /\ r.mem = asset)
            /\ (/\ oracle.update_slot > current_slot
                /\ oracle.key = FEED_ACCOUNT_KEY
                /\ oracle.owner = ORACLE_PROVIDER) =>
                   (r.res = "InvalidAccountData" /\ r.at = "future")
            /\ (/\ current_slot - oracle.update_slot = PRICE_MAX_AGE
                /\ oracle.key = FEED_ACCOUNT_KEY
                /\ oracle.owner = ORACLE_PROVIDER
                /\ oracle.update_slot > LastSeen(asset)) =>
                   r.res = "Ok"

\* an update whose slot is exactly PRICE_MAX_AGE below the clock was accepted
C28_Witness ==
    /\ orlast.op = "update" /\ orlast.res = "Ok"
    /\ current_slot - orlast.update_slot = PRICE_MAX_AGE
    /\ LastSeen(asset) = orlast.update_slot

\* ------------------------------------------------ dangling_pointer/insecure
\* size_of::<ChildAccount>() of the insecure program: parent, units
INSECURE_CHILD_SIZE == 40

\* child.units through the unchecked cast
ChildUnits(d, pad) ==
    ReadWords(d, INSECURE_CHILD_SIZE \div WORD_BYTES, pad)[INSECURE_CHILD_SIZE \div WORD_BYTES]

\* data.fill(0xff)
SentinelFill(A, x) == [A EXCEPT ![x].data = Fill(@, SENTINEL_WORD)]

\* the fill, the lamports moved to the user, assign(&system), realloc(0):
\* the two lamport borrows of one account fail when user and record are one
insecure_reclaim(A, u, x) ==
    LET A1 == SentinelFill(A, x)
    IN  IF u = x
        THEN Err("AccountBorrowFailed", "borrow_lamports", A1)
        ELSE Ok([Credit(A1, u, x) EXCEPT
                     ![x] = [lamports |-> 0, owner |-> "system", data |-> <<>>]])

\* the parent refused further unless the child stores its key and the
\* program owns it
ParentUntrusted(A, c, p, pad) ==
    \/ A[p].lamports = 0
    \/ ReadPubkey(A[c].data, pad) # KeyWords(p)
    \/ A[p].owner # "program"

\* parent_account.lamports() == 0
ParentUnfunded(A, c, p, pad) == A[p].lamports = 0

insecure_close_child(A, c, p, u, pad) ==
    IF ParentUnfunded(A, c, p, pad)
    THEN Err("InvalidAccountData", "parent_lamports", A)
    ELSE IF ChildUnits(A[c].data, pad) # 0
    THEN Err("InvalidAccountData", "units", A)
    ELSE insecure_reclaim(A, u, c)

\* no test of the record at all
insecure_close_parent(A, p, u) == insecure_reclaim(A, u, p)

insecure_process_instruction(A, accounts, instruction_data, pad) ==
    IF Len(instruction_data) = 0
    THEN Err("InvalidInstructionData", "empty", A)
    ELSE IF instruction_data[1] = 0
    THEN insecure_close_child(A, accounts[1], accounts[2], accounts[3], pad)
    ELSE IF instruction_data[1] = 1
    THEN insecure_close_parent(A, accounts[1], accounts[2])
    ELSE Err("InvalidInstructionData", "opcode", A)

\* live children of the program that store p's key
InsecureBound(A, p) ==
    {c \in Addr : /\ A[c].owner = "program"
                  /\ A[c].lamports > 0
                  /\ data_len(A[c]) = INSECURE_CHILD_SIZE
                  /\ ReadPubkey(A[c].data, 0) = KeyWords(p)}

\* The steps of test_dangling_pointer_exploit on consecutive steps:
\* close_parent succeeds for a record whose key a live child stores (1), a
\* record with lamports is put at that address (2), close_child of a child
\* that stores the key, naming that address as parent, succeeds (3).
ExploitStep(A, accounts, op, r) ==
    IF /\ op = "close_parent" /\ r.res = "Ok"
       /\ InsecureBound(r.mem, accounts[1]) # {}
    THEN [phase |-> 1, p |-> accounts[1]]
    ELSE IF /\ op = "close_child" /\ r.res = "Ok"
            /\ scen.phase = 2 /\ accounts[2] = scen.p
            /\ accounts[1] \in InsecureBound(A, scen.p)
    THEN [phase |-> 3, p |-> scen.p]
    ELSE [phase |-> 0, p |-> 0]

InsecureInvoke(accounts, instruction_data, pad) ==
    LET r == insecure_process_instruction(acct, accounts, instruction_data, pad)
    IN  /\ acct' = r.mem
        /\ last' = [op |-> OpName(instruction_data), res |-> r.res, at |-> r.at,
                    dup |-> accounts[1] = accounts[2], stale |-> FALSE]
        /\ closes' = closes
        /\ scen' = ExploitStep(acct, accounts, OpName(instruction_data), r)
        /\ UNCHANGED <<slvars, rbvars, orvars, tmvars>>

\* the accounts the calls name: the parent, the child and the user of the
\* exploit test, and a second child
InsecureAddr == {101, 201, 202} \cup UserAddr

\* the out-of-bounds word matters only to a child shorter than the struct
InsecurePads(a) ==
    IF Len(acct[a].data) < INSECURE_CHILD_SIZE \div WORD_BYTES THEN OverRead ELSE {0}

InsecureCloseChild ==
    \E c \in InsecureAddr, p \in InsecureAddr :
        \E u \in UserAddr \cup {c}, pad \in InsecurePads(c) :
            InsecureInvoke(<<c, p, u>>, <<0>>, pad)

InsecureCloseParent ==
    \E p \in InsecureAddr :
        \E u \in UserAddr \cup {p} :
            InsecureInvoke(<<p, u>>, <<1>>, 0)

InsecureBadInstruction ==
    \E p \in InsecureAddr \cap ParentAddr, u \in UserAddr, d \in InstructionData \ {<<0>>, <<1>>} :
        InsecureInvoke(<<p, u>>, d, 0)

\* svm.set_account at the parent's address when it holds nothing: a record
\* of 8 bytes with lamports and other units, owned by this program as in
\* the test or by another
InsecureRecreate ==
    \E a \in InsecureAddr \cap ParentAddr, owner \in {"program", "other"}, units \in {2} :
        /\ acct[a].lamports = 0
        /\ TotalLamports(acct) < InitTotal + MaxRecreate
        /\ acct' = [acct EXCEPT ![a] = [lamports |-> 1, owner |-> owner, data |-> <<units>>]]
        /\ last' = [op |-> "recreate", res |-> "Ok", at |-> "end", dup |-> FALSE,
                    stale |-> FALSE]
        /\ closes' = closes
        /\ scen' = IF scen.phase = 1 /\ scen.p = a
                   THEN [phase |-> 2, p |-> a]
                   ELSE [phase |-> 0, p |-> 0]
        /\ UNCHANGED <<slvars, rbvars, orvars, tmvars>>

\* parents of 8 bytes and children of 40, as the test sets them up: a child
\* stores a parent's key and its own units; the test's child has units and
\* the others have none
InsecureAcct(bind, units) ==
    [a \in Addr |->
        IF a \in ParentAddr
        THEN [lamports |-> 2, owner |-> "program", data |-> <<1>>]
        ELSE IF a \in ChildAddr
        THEN [lamports |-> 1, owner |-> "program",
              data |-> KeyWords(bind[a]) \o <<units[a]>>]
        ELSE [lamports |-> 1, owner |-> "system", data |-> <<>>]]

InitInsecure ==
    /\ \E units \in {0, 1} :
           acct = InsecureAcct([c \in ChildAddr |-> 101],
                               [c \in ChildAddr |-> IF c = 201 THEN units ELSE 0])
    /\ last = [op |-> "none", res |-> "Ok", at |-> "end", dup |-> FALSE, stale |-> FALSE]
    /\ closes = [a \in Addr |-> 0]
    /\ scen = [phase |-> 0, p |-> 0]
    /\ InitSL /\ InitRB /\ InitOR /\ InitTM

NextInsecure ==
    InsecureCloseChild \/ InsecureCloseParent \/ InsecureBadInstruction \/ InsecureRecreate

SpecInsecure == InitInsecure /\ [][NextInsecure]_vars

\* C30: the insecure close_parent makes no test of the record it closes: it
\* succeeds for every record and every other beneficiary, and when live
\* children store the record's key it leaves them live and storing the key
\* of a reclaimed record; and the insecure close_child tests the account
\* named as parent for its lamports only: with lamports it gets no further
\* test, whatever key the child stores and whoever owns the account or
\* whatever it holds, and the call succeeds whenever the child's units are 0
\* and the beneficiary is not the child; without lamports it is refused.
C30_DanglingParentAccepted ==
    /\ \A call \in ParentCalls :
           LET p == call[1]
               u == call[2]
               r == insecure_process_instruction(acct, <<p, u>>, <<1>>, call[3])
           IN  u # p =>
                   /\ r.res = "Ok"
                   /\ r.mem[p] = [lamports |-> 0, owner |-> "system", data |-> <<>>]
                   /\ InsecureBound(acct, p) \ {p} \subseteq InsecureBound(r.mem, p)
    /\ \A call \in ChildCalls :
           LET c == call[1]
               p == call[2]
               u == call[3]
               r == insecure_process_instruction(acct, <<c, p, u>>, <<0>>, call[4])
           IN  IF acct[p].lamports > 0
               THEN /\ r.at # "parent_lamports"
                    /\ r.res = "Ok" <=> (ChildUnits(acct[c].data, call[4]) = 0 /\ u # c)
               ELSE r.res = "InvalidAccountData" /\ r.at = "parent_lamports" /\ r.mem = acct

\* the exploit run through: a parent was closed while a live child stored
\* its key, a record with lamports was put at its address, and close_child
\* of that child naming the address as parent succeeded, while the record at
\* the address is not the parent the child was bound to
C30_Witness ==
    /\ scen.phase = 3
    /\ last.op = "close_child" /\ last.res = "Ok"
    /\ acct[scen.p].lamports > 0
    /\ acct[scen.p].owner = "other"

\* ------------------------------------------------------------- closability

\* The calls of test_child_then_parent_close for a parent with any number
\* of children, the user u as beneficiary: close_child for the live
\* children bound to p, in every order, each call succeeding and taking one
\* off the count, then the count at 0 and close_parent succeeding and
\* leaving p reclaimed.
ClosesInEveryOrder(A, p, u) ==
    LET RECURSIVE Rest(_)
        Rest(M) ==
            IF Bound(M, p) = {}
            THEN LET r == process_instruction(M, <<p, u>>, <<1>>, 0)
                 IN  /\ Count(M, p) = 0
                     /\ r.res = "Ok"
                     /\ r.mem[p] = [lamports |-> 0, owner |-> "system", data |-> <<>>]
            ELSE \A c \in Bound(M, p) :
                     LET r == process_instruction(M, <<c, p, u>>, <<0>>, 0)
                     IN  /\ r.res = "Ok"
                         /\ Count(r.mem, p) = Count(M, p) - 1
                         /\ Rest(r.mem)
    IN  Rest(A)

\* some sequence of successful close_child calls naming p, followed by a
\* successful close_parent of p, exists from memory A
CanBeClosed(A, p) ==
    LET RECURSIVE Path(_)
        Path(M) ==
            \/ \E u \in UserAddr : process_instruction(M, <<p, u>>, <<1>>, 0).res = "Ok"
            \/ \E c \in Bound(M, p), u \in UserAddr :
                   LET r == process_instruction(M, <<c, p, u>>, <<0>>, 0)
                   IN  r.res = "Ok" /\ Path(r.mem)
    IN  Path(A)

\* the count of every live parent equals the number of its live children
\* wherever that holds in the state, the prescribed calls close it; and
\* every live parent has some sequence of calls that closes it
ClosableNow ==
    \A p \in Addr :
        LiveParent(acct, p) =>
            /\ Count(acct, p) = Cardinality(Bound(acct, p)) =>
                   \A u \in UserAddr : ClosesInEveryOrder(acct, p, u)
            /\ CanBeClosed(acct, p)

\* C31: in every reachable state, a live parent whose child_count equals the
\* number n of its live bound children is brought to Reclaimed by closing
\* those children with close_child in any order (each call succeeds, the
\* count ends at 0) and then calling close_parent (which succeeds); every
\* live parent, whatever its count, has some sequence of successful calls
\* that reclaims it; and when callers go on making calls that succeed,
\* every live parent is eventually reclaimed.
C31_Closability ==
    /\ []ClosableNow
    /\ \A p \in ParentAddr : LiveParent(acct, p) ~> ~LiveParent(acct, p)

\* a parent that counted every child has been reclaimed after each of them
\* was closed, the other parent still live with the count 0 it started with
C31_Witness ==
    /\ last.op = "close_parent" /\ last.res = "Ok"
    /\ \A c \in ChildAddr : closes[c] = 1 /\ acct[c].lamports = 0
    /\ \E p \in ParentAddr, q \in ParentAddr :
           /\ p # q
           /\ closes[p] = 1 /\ acct[p].lamports = 0
           /\ closes[q] = 0 /\ LiveParent(acct, q) /\ Count(acct, q) = 0

====
